---- MODULE Spec2Model ----
(***************************************************************************)
(* Model of the bulk scraping orchestrator (services.BulkScraper): the job *)
(* state guarded by bs.mu, the three buffered control channels, the        *)
(* cancellation context, and the scrapeAll goroutines spawned by Start;    *)
(* and of the persistent store (storage.Storage): its tables, its two      *)
(* lexical indexes and the operations that write them.                     *)
(***************************************************************************)
EXTENDS Integers, Sequences, FiniteSets, Bags, TLC

(* ---------------------------------------------------------------------- *)
(* Bounds                                                                  *)
(* ---------------------------------------------------------------------- *)
\* number of scrapeAll goroutines that may be alive at the same time
MaxWorkers == 2
\* longest bookmark-id list handed to Start
MaxLen == 2
\* saturation value of the counter of items begun while paused
CountCap == 2

\* the bookmark-id lists a caller passes to Start: the first n stored
\* bookmarks in import order (the request handler rejects an empty list)
IdLists == {SubSeq(<<"a", "b", "c", "d">>, 1, n) : n \in 1..MaxLen}

(* ---------------------------------------------------------------------- *)
(* Types of the job state                                                  *)
(* ---------------------------------------------------------------------- *)
StatusIdle      == "idle"
StatusRunning   == "running"
StatusPaused    == "paused"
StatusCompleted == "completed"
StatusStopped   == "stopped"

BookmarkNotScraped == "not-scraped"
BookmarkInProgress == "in-progress"
BookmarkScraped    == "scraped"
BookmarkError      == "error"

\* an error text: every message the worker records is a literal prefix, an
\* error's text or a scraper's Error field that was tested to be non-empty;
\* only the difference between "" and a text is kept
ErrText == "text"

\* BookmarkScrapingProgress{Status, Error}
Progress(st, msg) == [Status |-> st, Error |-> msg]


VARIABLES
    status,            \* bs.status
    bookmarkIDs,       \* bs.bookmarkIDs
    current,           \* bs.current
    total,             \* bs.total
    currentURL,        \* bs.currentURL
    bookmarkStatuses,  \* contents of the map bs.bookmarkStatuses points to
    pauseChan,         \* number of buffered signals in bs.pauseChan (cap 1)
    resumeChan,        \* number of buffered signals in bs.resumeChan (cap 1)
    stopChan,          \* number of buffered signals in bs.stopChan (cap 1)
    ctxDone,           \* whether bs.cancel() was called on the context bs.ctx now holds
    workers,           \* the bag of scrapeAll goroutines that have not returned yet
    ret,               \* observer: the call that took the last step and the error it returned
    snap,              \* observer: the value last returned by GetStatus
    startedWhilePaused,\* observer: items marked in-progress since the last Pause returned
    changedSinceStop,  \* observer: ids whose per-item entry changed since the last Stop returned
    jobTouched,        \* observer: Pause or Stop succeeded since the last Start
    db,                \* the database file: the tables, the two FTS5 indexes, sqlite_sequence
    foreignKeys,       \* whether the connection enforces FOREIGN KEY clauses
    conn,              \* the one pooled connection: idle, or held by an open transaction
    last,              \* observer: the store call that took the last step and what it returned
    chunker,           \* a call of ChunkText: its text and budget, and the chunks once it returned
    search,            \* a search request: what it meets in the store, and its answer
    processor          \* a call of ProcessBookmarkContent: the store call it makes next

jobState == <<status, bookmarkIDs, current, total, currentURL, bookmarkStatuses,
              pauseChan, resumeChan, stopChan, ctxDone, workers>>
history  == <<startedWhilePaused, changedSinceStop, jobTouched>>
storeVars == <<db, foreignKeys, conn, last>>
vars     == <<jobState, ret, snap, history, storeVars, chunker, search, processor>>

\* a goroutine entering scrapeAll: its position, the slice and index of its
\* range loop, and the context whose Done channel its blocking select waits
\* on: "current" = the one bs.ctx still holds, "stale-done" / "stale-open" =
\* one an earlier Start made and a later Start replaced, cancelled or not
NewWorker == [pc |-> "range", ids |-> <<>>, i |-> 0, waitCtx |-> "none"]
NoCall    == [op |-> "", err |-> FALSE]
NoSnap    == [taken |-> FALSE]

\* the database initializeSchema leaves behind: the tables and indexes, no row
EmptyDB ==
    [bookmarks |-> {}, content |-> {}, embeddings |-> EmptyBag,
     bookmarks_fts |-> {}, content_fts |-> {}, seqContent |-> 0]
NoStoreCall == [op |-> ""]
\* the connection of the pool when no transaction holds it
Idle == [tx |-> ""]
\* no call of ChunkText is under way
NoText == [done |-> FALSE, text |-> <<>>, maxTokens |-> 0, chunks |-> <<>>]
\* no search request is under way
NoSearch == [done |-> FALSE]
\* no call of ProcessBookmarkContent is under way
NoProcessor == [pc |-> "idle"]

\* NewBulkScraper
JobInit ==
    /\ status = StatusIdle
    /\ bookmarkIDs = <<>>
    /\ current = 0
    /\ total = 0
    /\ currentURL = ""
    /\ bookmarkStatuses = <<>>
    /\ pauseChan = 0
    /\ resumeChan = 0
    /\ stopChan = 0
    /\ ctxDone = FALSE
    /\ workers = EmptyBag
    /\ ret = NoCall
    /\ snap = NoSnap
    /\ startedWhilePaused = 0
    /\ changedSinceStop = {}
    /\ jobTouched = FALSE

\* the orchestrator next to a store that no call is made on
Init ==
    /\ JobInit
    /\ db = EmptyDB
    /\ foreignKeys = FALSE
    /\ conn = Idle
    /\ last = NoStoreCall
    /\ chunker = NoText
    /\ search = NoSearch
    /\ processor = NoProcessor

(* ---------------------------------------------------------------------- *)
(* Helpers                                                                 *)
(* ---------------------------------------------------------------------- *)
SeqRange(s) == {s[k] : k \in 1..Len(s)}

\* non-blocking send on a channel of capacity 1: select { case ch <- x: default: }
TrySend(ch) == IF ch = 0 THEN 1 ELSE ch

\* the state guards of the four control calls
CanStart(s)  == ~(s = StatusRunning \/ s = StatusPaused)
\* a looser guard: anything but idle may be paused
CanPauseAny(s) == s # StatusIdle
CanPause(s)  == s = StatusRunning
CanResume(s) == s = StatusPaused
CanStop(s)   == ~(s # StatusRunning /\ s # StatusPaused)

\* the deferred function without its test of the status
DeferStatusAlways(s) == StatusCompleted
\* the deferred function resetting the job instead of completing it
DeferStatusIdle(s) == IF s = StatusRunning THEN StatusIdle ELSE s
\* the deferred function of scrapeAll
DeferStatus(s) == IF s = StatusRunning THEN StatusCompleted ELSE s

\* the map after updateBookmarkStatus(id, st, msg)
MapPut(m, id, st, msg) ==
    [x \in (DOMAIN m) \cup {id} |-> IF x = id THEN Progress(st, msg) ELSE m[x]]

\* the map Start builds: every supplied id not-scraped
FreshMap(ids) == [x \in SeqRange(ids) |-> Progress(BookmarkNotScraped, "")]

One(wk) == SetToBag({wk})
Live    == BagToSet(workers)

\* context.WithCancel in Start replaces bs.ctx: a goroutine blocked on the old
\* context keeps waiting on it
Stale(wk, done) ==
    IF wk.waitCtx = "current"
    THEN [wk EXCEPT !.waitCtx = IF done THEN "stale-done" ELSE "stale-open"]
    ELSE wk

RECURSIVE Replaced(_, _)
Replaced(ws, done) ==
    IF ws = EmptyBag THEN EmptyBag
    ELSE LET wk == CHOOSE x \in BagToSet(ws) : TRUE
         IN  Replaced(ws (-) One(wk), done) (+) One(Stale(wk, done))

(* ---------------------------------------------------------------------- *)
(* Control calls (each runs wholly under bs.mu); err is the returned error *)
(* ---------------------------------------------------------------------- *)
Start(ids, err) ==
    IF ~CanStart(status)
    THEN /\ err
         /\ UNCHANGED jobState
    ELSE /\ ~err
         /\ BagCardinality(workers) < MaxWorkers
         /\ bookmarkIDs' = ids
         /\ current' = 0
         /\ total' = Len(ids)
         /\ status' = StatusRunning
         /\ bookmarkStatuses' = FreshMap(ids)
         /\ ctxDone' = FALSE
         /\ workers' = Replaced(workers, ctxDone) (+) One(NewWorker)
         /\ UNCHANGED <<currentURL, pauseChan, resumeChan, stopChan>>

Pause(err) ==
    IF ~CanPause(status)
    THEN /\ err
         /\ UNCHANGED jobState
    ELSE /\ ~err
         /\ status' = StatusPaused
         /\ pauseChan' = TrySend(pauseChan)
         /\ UNCHANGED <<bookmarkIDs, current, total, currentURL, bookmarkStatuses,
                        resumeChan, stopChan, ctxDone, workers>>

Resume(err) ==
    IF ~CanResume(status)
    THEN /\ err
         /\ UNCHANGED jobState
    ELSE /\ ~err
         /\ status' = StatusRunning
         /\ resumeChan' = TrySend(resumeChan)
         /\ UNCHANGED <<bookmarkIDs, current, total, currentURL, bookmarkStatuses,
                        pauseChan, stopChan, ctxDone, workers>>

Stop(err) ==
    IF ~CanStop(status)
    THEN /\ err
         /\ UNCHANGED jobState
    ELSE /\ ~err
         /\ status' = StatusStopped
         /\ ctxDone' = TRUE
         /\ stopChan' = TrySend(stopChan)
         /\ UNCHANGED <<bookmarkIDs, current, total, currentURL, bookmarkStatuses,
                        pauseChan, resumeChan, workers>>

\* float64(bs.current) / float64(bs.total) * 100, kept as an exact fraction
ProgressOf(c, t) == IF t > 0 THEN <<c * 100, t>> ELSE <<0, 1>>

\* the struct GetStatus returns: the scalars are copies, BookmarkStatuses is
\* the map bs.bookmarkStatuses itself
GetStatusResult ==
    [Status           |-> status,
     Current          |-> current,
     Total            |-> total,
     Progress         |-> ProgressOf(current, total),
     CurrentURL       |-> currentURL,
     BookmarkStatuses |-> bookmarkStatuses]

\* GetStatus under the read lock; the observer keeps what the caller saw in
\* the returned map when the call returned
GetStatus ==
    /\ snap' = [taken |-> TRUE, seen |-> GetStatusResult.BookmarkStatuses]
    /\ UNCHANGED <<jobState, ret, history, storeVars, chunker, search, processor>>

(* ---------------------------------------------------------------------- *)
(* The scrapeAll goroutine                                                 *)
(* ---------------------------------------------------------------------- *)
\* a receive from the Done channel of the context a blocked worker holds is
\* ready once cancel() was called on that context
WaitCtxDone(wk) ==
    \/ wk.waitCtx = "current" /\ ctxDone
    \/ wk.waitCtx = "stale-done"

Become(wk, new) == workers' = (workers (-) One(wk)) (+) One(new)

\* the worker once it is out of the loop (pc "final": fell off its end, pc
\* "defer": returned): the loop's variables are dead
Leaving(wk, pc) == [pc |-> pc, ids |-> <<>>, i |-> 0, waitCtx |-> "none"]

\* the worker after `continue` or the end of the loop body
Continue(wk) ==
    IF wk.i < Len(wk.ids)
    THEN [wk EXCEPT !.pc = "check_stop", !.i = wk.i + 1]
    ELSE Leaving(wk, "final")

\* updateBookmarkStatus: takes bs.mu and writes the entry of the current map
UpdateBookmarkStatus(id, st, msg) ==
    bookmarkStatuses' = MapPut(bookmarkStatuses, id, st, msg)

\* `range bs.bookmarkIDs`: the slice is read once, without bs.mu
WorkerRange(wk) ==
    /\ wk.pc = "range"
    /\ Become(wk, IF Len(bookmarkIDs) = 0
                  THEN Leaving(wk, "final")
                  ELSE [wk EXCEPT !.pc = "check_stop", !.ids = bookmarkIDs, !.i = 1])
    /\ UNCHANGED <<status, bookmarkIDs, current, total, currentURL, bookmarkStatuses,
                   pauseChan, resumeChan, stopChan, ctxDone>>

\* first select of the loop body: bs.ctx is read without bs.mu; a ready case is
\* chosen at random, the default only when none is ready
WorkerCheckStop(wk) ==
    /\ wk.pc = "check_stop"
    /\ \/ /\ ctxDone
          /\ Become(wk, Leaving(wk, "defer"))
          /\ UNCHANGED stopChan
       \/ /\ stopChan > 0
          /\ stopChan' = stopChan - 1
          /\ Become(wk, Leaving(wk, "defer"))
       \/ /\ ~ctxDone
          /\ stopChan = 0
          /\ Become(wk, [wk EXCEPT !.pc = "check_pause"])
          /\ UNCHANGED stopChan
    /\ UNCHANGED <<status, bookmarkIDs, current, total, currentURL, bookmarkStatuses,
                   pauseChan, resumeChan, ctxDone>>

\* second select: a pending pause signal is consumed, else the default is taken
WorkerCheckPause(wk) ==
    /\ wk.pc = "check_pause"
    /\ \/ /\ pauseChan > 0
          /\ pauseChan' = pauseChan - 1
          /\ Become(wk, [wk EXCEPT !.pc = "enter_wait"])
       \/ /\ pauseChan = 0
          /\ Become(wk, [wk EXCEPT !.pc = "set_current"])
          /\ UNCHANGED pauseChan
    /\ UNCHANGED <<status, bookmarkIDs, current, total, currentURL, bookmarkStatuses,
                   resumeChan, stopChan, ctxDone>>

\* entering the inner select evaluates bs.ctx.Done() once, without bs.mu
WorkerEnterWait(wk) ==
    /\ wk.pc = "enter_wait"
    /\ Become(wk, [wk EXCEPT !.pc = "wait_resume", !.waitCtx = "current"])
    /\ UNCHANGED <<status, bookmarkIDs, current, total, currentURL, bookmarkStatuses,
                   pauseChan, resumeChan, stopChan, ctxDone>>

\* the inner, blocking select: resume, stop or cancellation
WorkerWaitResume(wk) ==
    /\ wk.pc = "wait_resume"
    /\ \/ /\ resumeChan > 0
          /\ resumeChan' = resumeChan - 1
          /\ Become(wk, [wk EXCEPT !.pc = "set_current", !.waitCtx = "none"])
          /\ UNCHANGED stopChan
       \/ /\ stopChan > 0
          /\ stopChan' = stopChan - 1
          /\ Become(wk, Leaving(wk, "defer"))
          /\ UNCHANGED resumeChan
       \/ /\ WaitCtxDone(wk)
          /\ Become(wk, Leaving(wk, "defer"))
          /\ UNCHANGED <<resumeChan, stopChan>>
    /\ UNCHANGED <<status, bookmarkIDs, current, total, currentURL, bookmarkStatuses,
                   pauseChan, ctxDone>>

\* bs.current = i + 1 (i counts from 0 in the source, from 1 here)
WorkerSetCurrent(wk) ==
    /\ wk.pc = "set_current"
    /\ current' = wk.i
    /\ Become(wk, [wk EXCEPT !.pc = "get_bookmark"])
    /\ UNCHANGED <<status, bookmarkIDs, total, currentURL, bookmarkStatuses,
                   pauseChan, resumeChan, stopChan, ctxDone>>

\* storage.GetBookmark, then either the error entry and `continue`,
\* or bs.currentURL = bookmark.URL
WorkerGetBookmark(wk) ==
    /\ wk.pc = "get_bookmark"
    /\ \E found \in BOOLEAN :
          IF found
          THEN /\ currentURL' = "url-" \o wk.ids[wk.i]
               /\ Become(wk, [wk EXCEPT !.pc = "mark_inprogress"])
               /\ UNCHANGED bookmarkStatuses
          ELSE /\ UpdateBookmarkStatus(wk.ids[wk.i], BookmarkError, ErrText)
               /\ Become(wk, Continue(wk))
               /\ UNCHANGED currentURL
    /\ UNCHANGED <<status, bookmarkIDs, current, total, pauseChan, resumeChan, stopChan,
                   ctxDone>>

\* updateBookmarkStatus(bookmarkID, BookmarkInProgress, ""), then the fetch begins
WorkerMarkInProgress(wk) ==
    /\ wk.pc = "mark_inprogress"
    /\ UpdateBookmarkStatus(wk.ids[wk.i], BookmarkInProgress, "")
    /\ Become(wk, [wk EXCEPT !.pc = "in_fetch"])
    /\ UNCHANGED <<status, bookmarkIDs, current, total, currentURL,
                   pauseChan, resumeChan, stopChan, ctxDone>>

\* what scraper.Scrape may hand back: err, and scrapedContent as nil, as a
\* failure with or without its Error text, or as a success
ScrapeResults ==
    { [err |-> TRUE,  content |-> "nil"],
      [err |-> TRUE,  content |-> "failed-with-error"],
      [err |-> FALSE, content |-> "failed-with-error"],
      [err |-> FALSE, content |-> "failed-no-error"],
      [err |-> FALSE, content |-> "success"] }

\* err != nil || !scrapedContent.Success
ScrapeFailed(r) == r.err \/ r.content # "success"

\* the message recorded for a failed scrape
ScrapeErrorMsg(r) ==
    IF r.content # "nil" /\ r.content = "failed-with-error" THEN ErrText  \* scrapedContent.Error
    ELSE IF r.err THEN ErrText                                           \* err.Error()
    ELSE ErrText                                                          \* "Failed to scrape content"

\* the per-item entry written after the fetch: scraper creation, Scrape,
\* UpdateBookmark and StoreContent (whose failure is only logged)
ItemResult(createErr, r, updateErr, storeErr) ==
    IF createErr THEN Progress(BookmarkError, ErrText)
    ELSE IF ScrapeFailed(r) THEN Progress(BookmarkError, ScrapeErrorMsg(r))
    ELSE IF updateErr THEN Progress(BookmarkError, ErrText)
    ELSE Progress(BookmarkScraped, "")

\* the fetch returns; the item's final entry, any that the outcomes of those
\* four calls can lead to, is written and the loop goes on
WorkerFinishItem(wk) ==
    /\ wk.pc = "in_fetch"
    /\ \E createErr \in BOOLEAN, r \in ScrapeResults, updateErr \in BOOLEAN, storeErr \in BOOLEAN :
          LET res == ItemResult(createErr, r, updateErr, storeErr)
          IN  UpdateBookmarkStatus(wk.ids[wk.i], res.Status, res.Error)
    /\ Become(wk, Continue(wk))
    /\ UNCHANGED <<status, bookmarkIDs, current, total, currentURL,
                   pauseChan, resumeChan, stopChan, ctxDone>>

\* after the loop: bs.current = bs.total; bs.currentURL = ""
WorkerFinal(wk) ==
    /\ wk.pc = "final"
    /\ current' = total
    /\ currentURL' = ""
    /\ Become(wk, Leaving(wk, "defer"))
    /\ UNCHANGED <<status, bookmarkIDs, total, bookmarkStatuses,
                   pauseChan, resumeChan, stopChan, ctxDone>>

\* the deferred function, run on every way out of scrapeAll
WorkerDefer(wk) ==
    /\ wk.pc = "defer"
    /\ status' = DeferStatus(status)
    /\ workers' = workers (-) One(wk)
    /\ UNCHANGED <<bookmarkIDs, current, total, currentURL, bookmarkStatuses,
                   pauseChan, resumeChan, stopChan, ctxDone>>

WorkerStep(wk) ==
    \/ WorkerRange(wk)
    \/ WorkerCheckStop(wk)
    \/ WorkerCheckPause(wk)
    \/ WorkerEnterWait(wk)
    \/ WorkerWaitResume(wk)
    \/ WorkerSetCurrent(wk)
    \/ WorkerGetBookmark(wk)
    \/ WorkerMarkInProgress(wk)
    \/ WorkerFinishItem(wk)
    \/ WorkerFinal(wk)
    \/ WorkerDefer(wk)

(* ---------------------------------------------------------------------- *)
(* Specifications                                                          *)
(* ---------------------------------------------------------------------- *)
\* the program alone: the control calls of the handlers and the goroutines
Next ==
    /\ \/ \E ids \in IdLists, err \in BOOLEAN : Start(ids, err)
       \/ \E err \in BOOLEAN : Pause(err)
       \/ \E err \in BOOLEAN : Resume(err)
       \/ \E err \in BOOLEAN : Stop(err)
       \/ \E wk \in Live : WorkerStep(wk)
    /\ UNCHANGED <<ret, snap, history, storeVars, chunker, search, processor>>

Spec == Init /\ [][Next]_vars

\* the scheduler runs every goroutine that can take a step
FairSpec == Spec /\ WF_vars(\E wk \in Live : WorkerStep(wk) /\ UNCHANGED <<ret, snap, history, storeVars, chunker, search, processor>>)

\* the program with the outcome of every control call recorded
CallSpec ==
    /\ Init
    /\ [][
          /\ \/ \E ids \in IdLists, err \in BOOLEAN :
                   Start(ids, err) /\ ret' = [op |-> "Start", err |-> err]
             \/ \E err \in BOOLEAN : Pause(err)  /\ ret' = [op |-> "Pause", err |-> err]
             \/ \E err \in BOOLEAN : Resume(err) /\ ret' = [op |-> "Resume", err |-> err]
             \/ \E err \in BOOLEAN : Stop(err)   /\ ret' = [op |-> "Stop", err |-> err]
             \/ \E wk \in Live : WorkerStep(wk) /\ ret' = NoCall
          /\ UNCHANGED <<snap, history, storeVars, chunker, search, processor>>
      ]_vars

\* the per-item entries a step wrote: ids whose entry differs from before
Written == {id \in DOMAIN bookmarkStatuses' :
               id \notin DOMAIN bookmarkStatuses \/ bookmarkStatuses'[id] # bookmarkStatuses[id]}

\* the program with what happened since the last Pause, Stop and Start recorded
HistSpec ==
    /\ Init
    /\ [][
          /\ \/ \E ids \in IdLists, err \in BOOLEAN :
                   /\ Start(ids, err)
                   /\ IF err THEN UNCHANGED history
                      ELSE startedWhilePaused' = 0 /\ changedSinceStop' = {} /\ jobTouched' = FALSE
             \/ \E err \in BOOLEAN :
                   /\ Pause(err)
                   /\ IF err THEN UNCHANGED history
                      ELSE startedWhilePaused' = 0 /\ jobTouched' = TRUE /\ UNCHANGED changedSinceStop
             \/ \E err \in BOOLEAN :
                   /\ Resume(err)
                   /\ IF err THEN UNCHANGED history
                      ELSE startedWhilePaused' = 0 /\ UNCHANGED <<changedSinceStop, jobTouched>>
             \/ \E err \in BOOLEAN :
                   /\ Stop(err)
                   /\ IF err THEN UNCHANGED history
                      ELSE startedWhilePaused' = 0 /\ changedSinceStop' = {} /\ jobTouched' = TRUE
             \/ \E wk \in Live :
                   /\ WorkerStep(wk)
                   /\ startedWhilePaused' =
                         IF /\ status = StatusPaused
                            /\ \E id \in Written : bookmarkStatuses'[id].Status = BookmarkInProgress
                         THEN (IF startedWhilePaused < CountCap THEN startedWhilePaused + 1
                               ELSE startedWhilePaused)
                         ELSE startedWhilePaused
                   /\ changedSinceStop' =
                         IF status = StatusStopped THEN changedSinceStop \cup Written
                         ELSE changedSinceStop
                   /\ UNCHANGED jobTouched
          /\ UNCHANGED <<ret, snap, storeVars, chunker, search, processor>>
      ]_vars

\* the program with a client that polls GetStatus and keeps the last answer
SnapSpec ==
    /\ Init
    /\ [][
          \/ /\ \/ \E ids \in IdLists, err \in BOOLEAN :
                      /\ Start(ids, err)
                      /\ snap' = IF err THEN snap ELSE NoSnap   \* a new map: the old one is written no more
                \/ /\ \/ \E err \in BOOLEAN : Pause(err)
                      \/ \E err \in BOOLEAN : Resume(err)
                      \/ \E err \in BOOLEAN : Stop(err)
                      \/ \E wk \in Live : WorkerStep(wk)
                   /\ UNCHANGED snap
             /\ UNCHANGED <<ret, history, storeVars, chunker, search, processor>>
          \/ GetStatus
      ]_vars

(* ---------------------------------------------------------------------- *)
(* Properties                                                              *)
(* ---------------------------------------------------------------------- *)
Entry(id) == bookmarkStatuses[id]
Finished(id) ==
    /\ id \in DOMAIN bookmarkStatuses
    /\ \/ Entry(id) = Progress(BookmarkScraped, "")
       \/ Entry(id).Status = BookmarkError /\ Entry(id).Error # ""

C2_WrongStateFails ==
    [][/\ ret'.err => UNCHANGED jobState
       /\ ret'.op = "Start"  /\ status \in {StatusRunning, StatusPaused} => ret'.err
       /\ ret'.op = "Pause"  /\ status # StatusRunning => ret'.err
       /\ ret'.op = "Resume" /\ status # StatusPaused => ret'.err
       /\ ret'.op = "Stop"   /\ status \notin {StatusRunning, StatusPaused} => ret'.err]_vars

\* C2 witness: a Pause just failed on a job that is already paused and whose
\* worker is blocked waiting for the resume signal
C2_Witness ==
    /\ ret = [op |-> "Pause", err |-> TRUE]
    /\ status = StatusPaused
    /\ \E wk \in Live : wk.pc = "wait_resume"

\* C3: there is never more than one scrapeAll worker that can still write job
\* state or process items.
C3_AtMostOneWorker == BagCardinality(workers) <= 1

\* C4: items are processed in the supplied order, one at a time: an item of
\* the job's list is touched only once the item before it is scraped or error,
\* and no two entries of the per-item map are in-progress together.
C4_InOrderOneAtATime ==
    /\ Cardinality({id \in DOMAIN bookmarkStatuses : Entry(id).Status = BookmarkInProgress}) <= 1
    /\ \A k \in 1..(Len(bookmarkIDs) - 1) :
          /\ bookmarkIDs[k + 1] \in DOMAIN bookmarkStatuses
          /\ Entry(bookmarkIDs[k + 1]).Status # BookmarkNotScraped
          => Finished(bookmarkIDs[k])

\* C5: a job that is never paused or stopped reaches completed only with
\* every item attempted: each is scraped, or error with a non-empty message.
C5_UntouchedJobAttemptsAll ==
    status = StatusCompleted /\ ~jobTouched
    => \A id \in SeqRange(bookmarkIDs) : Finished(id)

\* C6: while the status is paused, at most the one item the worker was
\* already committed to is marked in-progress after Pause returned.
C6_PausedStartsNoNewItem ==
    status = StatusPaused => startedWhilePaused <= 1

\* C7: after Stop returned, at most one item changes its per-item entry while
\* the status is stopped.
C7_StopLeavesRestUntouched ==
    status = StatusStopped => Cardinality(changedSinceStop) <= 1

\* C8: the per-item map holds exactly the ids of the current job, and whenever
\* the status is completed every id of the list is scraped or error and
\* current = total.
C8_FreshJob ==
    /\ DOMAIN bookmarkStatuses = SeqRange(bookmarkIDs)
    /\ status = StatusCompleted =>
          /\ \A id \in SeqRange(bookmarkIDs) : Finished(id)
          /\ current = total

UnlockedReads(wk) ==
    CASE wk.pc = "range"           -> {"bookmarkIDs"}
      [] wk.pc = "check_stop"      -> {"ctx"}
      [] wk.pc = "enter_wait"      -> {"ctx"}
      [] wk.pc = "mark_inprogress" -> {"ctx"}
      [] OTHER                     -> {}

\* C10: job state is only accessed under bs.mu (no worker reads a field
\* without the lock while a Start may write it), and the map a GetStatus
\* call returned is not modified after the call returned.
C10_LockedAndStable ==
    /\ \A wk \in Live : UnlockedReads(wk) # {} => ~CanStart(status)
    /\ snap.taken => snap.seen = bookmarkStatuses

(* ====================================================================== *)
(* The persistent store (storage.Storage)                                  *)
(* ====================================================================== *)
(* ---------------------------------------------------------------------- *)
(* Bounds of the store                                                     *)
(* ---------------------------------------------------------------------- *)
\* number of distinct URLs that are ever imported or added, and the largest
\* rowid a bookmark row gets
MaxUrls == 2
\* number of bookmark rows next to which content and chunks are stored
MaxOwners == 1
\* longest batch handed to ImportBookmarks
MaxBatch == 2
\* largest content id the AUTOINCREMENT sequence hands out
MaxContentId == 2
\* largest number of rows of the embeddings table
MaxEmbeddings == 2
\* longest chunk list handed to StoreMultipleChunkEmbeddings
MaxChunks == 2

(* ---------------------------------------------------------------------- *)
(* Values                                                                  *)
(* ---------------------------------------------------------------------- *)
Urls == {"url" \o ToString(k) : k \in 1..MaxUrls}

\* the text the database compares a TEXT column with when it is handed an
\* integer parameter, and the id a row gets from its integer key
IntText(n) == ToString(n)

\* the title a parsed bookmark file carries; ImportBookmarks stores "" as
\* the description
ImportedTitle == "imported"
\* what a fetched page carries: ScrapedContent{Title, Description, Content, CleanText}
\* (a page with text, and a page whose cleaned text is empty)
Pages ==
    { [Title |-> "scraped", Description |-> "desc", Content |-> "<x>", CleanText |-> "x"],
      [Title |-> "scraped", Description |-> "desc", Content |-> "<>",  CleanText |-> ""] }

\* the chunk lists the pipeline hands to the store: one of each length, any
\* two of them different at every index they share
ChunkList(n) == [i \in 1..n |-> IF (i + n) % 2 = 0 THEN "p" ELSE "q"]
ChunkLists   == {ChunkList(n) : n \in 0..MaxChunks}
\* ChunkText(text, 6000) on the texts above: no chunk for the empty text
ChunksOfText(text) == IF text = "" THEN ChunkList(0) ELSE ChunkList(MaxChunks)
\* one vector per chunk; the numbers of a vector play no part in the store
Vectors(n) == [k \in 1..n |-> "vec"]

(* ---------------------------------------------------------------------- *)
(* Rows and transactions                                                   *)
(* ---------------------------------------------------------------------- *)
SetMax(S) == CHOOSE m \in S : \A k \in S : k <= m

\* the rowid SQLite gives a new row of a table without AUTOINCREMENT
NextRowid(d) ==
    IF d.bookmarks = {} THEN 1 ELSE SetMax({b.rowid : b \in d.bookmarks}) + 1

BookmarksById(d, id)  == {b \in d.bookmarks : b.id = id}
ContentOf(d, id)      == {c \in d.content : c.bookmark_id = id}
ContentById(d, cid)   == {c \in d.content : c.id = cid}
\* the rows of the embeddings table that carry a content id, as a bag
ChunksOf(d, cid) ==
    LET rows == {e \in BagToSet(d.embeddings) : e.content_id = cid}
    IN  [e \in rows |-> d.embeddings[e]]
EmbeddingRow(cid, idx, text) == [content_id |-> cid, chunk_index |-> idx, chunk_text |-> text]

\* DELETE FROM embeddings WHERE content_id IN cids
DeleteEmbeddings(d, cids) ==
    LET keep == {e \in BagToSet(d.embeddings) : e.content_id \notin cids}
    IN  [d EXCEPT !.embeddings = [e \in keep |-> d.embeddings[e]]]

\* DELETE FROM content WHERE bookmark_id = id; ON DELETE CASCADE takes the
\* rows of the embeddings table along when the connection enforces it
DeleteContent(d, fk, id) ==
    LET gone == {c.id : c \in ContentOf(d, id)}
        d1   == IF fk THEN DeleteEmbeddings(d, gone) ELSE d
    IN  [d1 EXCEPT !.content = d.content \ ContentOf(d, id)]

\* what a call hands back: the database it leaves and whether it returned an error
Out(d, err) == [db |-> d, err |-> err]
\* tx.Commit() keeps the transaction's work; the deferred tx.Rollback() of a
\* call that returns early restores the database the transaction began with
Commit(before, work)        == Out(work, FALSE)
RollbackKeepsWork(before, work) == Out(work, TRUE)
Rollback(before, work)      == Out(before, TRUE)

(* ---------------------------------------------------------------------- *)
(* Operations of the store: each maps the database to the database it      *)
(* leaves and the error it returns. An INSERT may be refused by the        *)
(* database (a constraint, a full disk); the parameter that says so is     *)
(* chosen by the environment.                                              *)
(* ---------------------------------------------------------------------- *)
\* a duplicate check that finds no row
BookmarksByUrlNone(d, u) == {}
\* SELECT id FROM bookmarks WHERE url = ?
BookmarksByUrl(d, u) == {b \in d.bookmarks : b.url = u}
\* the loop of ImportBookmarks over parseResult.Bookmarks, from entry k on
RECURSIVE ImportLoop(_, _, _, _, _)
ImportLoop(work, res, batch, k, refused) ==
    IF k > Len(batch) THEN [db |-> work, result |-> res]
    ELSE IF BookmarksByUrl(work, batch[k].URL) # {}
    THEN ImportLoop(work, [res EXCEPT !.Duplicates = @ + 1], batch, k + 1, refused)
    ELSE IF k \in refused
    THEN ImportLoop(work, [res EXCEPT !.Failed = @ + 1], batch, k + 1, refused)
    ELSE LET rowid == NextRowid(work)
             row   == [rowid |-> rowid, id |-> "u" \o ToString(rowid), url |-> batch[k].URL,
                       title |-> batch[k].Title, description |-> "", status |-> "pending"]
         IN  ImportLoop([work EXCEPT !.bookmarks = @ \cup {row}],
                        [res EXCEPT !.SuccessfullyImported = @ + 1], batch, k + 1, refused)

\* ImportBookmarks(parseResult): one transaction around the loop
ImportBookmarks(d, batch, refused) ==
    LET done == ImportLoop(d, [SuccessfullyImported |-> 0, Failed |-> 0, Duplicates |-> 0],
                           batch, 1, refused)
    IN  [db |-> Commit(d, done.db).db, err |-> FALSE, result |-> done.result]

\* AddBookmark(url, title): the single insert; the row's id is its integer key
AddBookmark(d, url, title) ==
    IF BookmarksByUrl(d, url) # {} THEN Out(d, TRUE)      \* url TEXT UNIQUE
    ELSE LET rowid == NextRowid(d)
             row   == [rowid |-> rowid, id |-> IntText(rowid), url |-> url,
                       title |-> title, description |-> "", status |-> "pending"]
         IN  Out([d EXCEPT !.bookmarks = @ \cup {row}], FALSE)

\* GetBookmark, GetContent, GetEmbedding: sql.ErrNoRows becomes an error
GetBookmark(d, id)   == Out(d, BookmarksById(d, id) = {})
GetContent(d, id)    == Out(d, ContentOf(d, id) = {})
GetEmbedding(d, cid) == Out(d, BagToSet(ChunksOf(d, cid)) = {})

\* UpdateBookmarkStatus(bookmarkID, status): one UPDATE, no transaction
StorageUpdateBookmarkStatus(d, id, st) ==
    IF BookmarksById(d, id) = {} THEN Out(d, TRUE)
    ELSE Out([d EXCEPT !.bookmarks =
                {IF b.id = id THEN [b EXCEPT !.status = st] ELSE b : b \in @}], FALSE)

\* UpdateBookmark(bookmark): the row, then its entry of bookmarks_fts
UpdateBookmark(d, id, title, description, refused) ==
    LET rows  == BookmarksById(d, id)
        work1 == [d EXCEPT !.bookmarks =
                    {IF b.id = id THEN [b EXCEPT !.title = title, !.description = description]
                     ELSE b : b \in @}]
        rowid == (CHOOSE b \in rows : TRUE).rowid
        work2 == [work1 EXCEPT !.bookmarks_fts =
                    {f \in @ : f.rowid # rowid}
                    \cup {[rowid |-> rowid, title |-> title, description |-> description]}]
    IN  IF rows = {} THEN Rollback(d, d)
        ELSE IF refused THEN Rollback(d, work1)
        ELSE Commit(d, work2)

\* StoreContent(bookmarkID, rawContent, cleanText)
StoreContent(d, fk, id, raw, clean, refused) ==
    LET work1 == DeleteContent(d, fk, id)
        cid   == work1.seqContent + 1
        row   == [id |-> cid, bookmark_id |-> id, raw_content |-> raw, clean_text |-> clean]
        work2 == [work1 EXCEPT !.content = @ \cup {row}, !.seqContent = cid]
        work3 == [work2 EXCEPT !.content_fts = @ \cup {[rowid |-> cid, clean_text |-> clean]}]
    IN  IF refused = "content" \/ (fk /\ BookmarksById(d, id) = {}) THEN Rollback(d, work1)
        ELSE IF refused = "content_fts" \/ (\E f \in work2.content_fts : f.rowid = cid)
        THEN Rollback(d, work2)
        ELSE Commit(d, work3)

\* StoreChunkEmbedding(contentID, chunkIndex, embedding, chunkText): one
\* INSERT OR REPLACE; the table's only key is its AUTOINCREMENT id, which
\* the statement does not give, so no row is ever replaced
StoreChunkEmbedding(d, fk, cid, idx, text, refused) ==
    IF refused \/ (fk /\ ContentById(d, cid) = {}) THEN Out(d, TRUE)
    ELSE Out([d EXCEPT !.embeddings = @ (+) SetToBag({EmbeddingRow(cid, idx, text)})], FALSE)

\* StoreEmbedding(contentID, embedding)
StoreEmbedding(d, fk, cid, refused) == StoreChunkEmbedding(d, fk, cid, 0, "", refused)

\* the rows StoreMultipleChunkEmbeddings inserts for chunks[0..upto-1]
ChunkRows(cid, chunks, upto) ==
    SetToBag({EmbeddingRow(cid, i - 1, chunks[i]) : i \in 1..upto})

\* StoreMultipleChunkEmbeddings(contentID, embeddings, chunks): DELETE, then
\* one INSERT per chunk, in one transaction; the INSERT for chunk number
\* failAt (0: none) is refused, a foreign key refuses the first one
StoreMultipleChunkEmbeddings(d, fk, cid, embeddings, chunks, failAt) ==
    LET work1  == DeleteEmbeddings(d, {cid})
        n      == Len(embeddings)
        broken == IF n > 0 /\ fk /\ ContentById(d, cid) = {} THEN 1 ELSE failAt
        work2(upto) == [work1 EXCEPT !.embeddings = @ (+) ChunkRows(cid, chunks, upto)]
    IN  IF Len(embeddings) # Len(chunks) THEN Out(d, TRUE)
        ELSE IF broken \in 1..n THEN Rollback(d, work2(broken - 1))
        ELSE Commit(d, work2(n))

\* BatchStoreEmbeddings(embeddings): one INSERT OR REPLACE per entry, with
\* neither chunk_index (DEFAULT 0) nor chunk_text (NULL), in one transaction
BatchStoreEmbeddings(d, fk, cids, failAt) ==
    LET n      == Len(cids)
        bad    == {i \in 1..n : fk /\ ContentById(d, cids[i]) = {}} \cup ({failAt} \cap (1..n))
        broken == IF bad = {} THEN 0 ELSE CHOOSE i \in bad : \A j \in bad : i <= j
        upto   == IF broken = 0 THEN n ELSE broken - 1
        rows   == [e \in {EmbeddingRow(cids[i], 0, "NULL") : i \in 1..upto} |->
                     Cardinality({i \in 1..upto : cids[i] = e.content_id})]
        work   == [d EXCEPT !.embeddings = @ (+) rows]
    IN  IF broken # 0 THEN Rollback(d, work) ELSE Commit(d, work)

\* DeleteBookmark(bookmarkID int): the parameter is an integer; the TEXT
\* columns id and bookmark_id are compared with its text, rowid with itself
DeleteBookmark(d, fk, bookmarkID) ==
    LET id    == IntText(bookmarkID)
        work1 == [d EXCEPT !.bookmarks_fts = {f \in @ : f.rowid # bookmarkID}]
        work2 == DeleteEmbeddings(work1, {c.id : c \in ContentOf(work1, id)})
        work3 == DeleteContent(work2, fk, id)
        work4 == [work3 EXCEPT !.bookmarks = @ \ BookmarksById(work3, id)]
    IN  IF BookmarksById(work3, id) = {} THEN Rollback(d, work3)
        ELSE Commit(d, work4)

(* ---------------------------------------------------------------------- *)
(* Callers of the store: each runs its store calls one after the other,    *)
(* every call in a transaction of its own                                  *)
(* ---------------------------------------------------------------------- *)
\* what the environment decides during one run of a caller: the answer of
\* the scraper, the page it fetched, whether the embedding provider failed,
\* and the INSERT the database refuses, if any
Runs ==
    [r : ScrapeResults, page : Pages, providerErr : BOOLEAN,
     refused : {"none", "bookmarks_fts", "content", "content_fts", "embeddings"}]

\* GenerateEmbeddingWithChunking(text): no chunk is an error, so is a
\* failure of the provider
PipelineFails(text, providerErr) == Len(ChunksOfText(text)) = 0 \/ providerErr

\* a caller returns: the database it leaves, its error, and the step it
\* returned at
Ended(d, err, stage) == [db |-> d, err |-> err, stage |-> stage]

\* ContentProcessor.ProcessBookmarkContent(bookmarkID)
ProcessBookmarkContent(d, fk, id, run) ==
    LET stored  == StoreContent(d, fk, id, run.page.Content, run.page.CleanText, run.refused)
        content == CHOOSE c \in ContentOf(stored.db, id) : TRUE
        chunks  == ChunksOfText(content.clean_text)
        multi   == StoreMultipleChunkEmbeddings(stored.db, fk, content.id, Vectors(Len(chunks)),
                       chunks, IF run.refused = "embeddings" THEN 1 ELSE 0)
        marked  == StorageUpdateBookmarkStatus(multi.db, id, "completed")
    IN  IF GetBookmark(d, id).err THEN Ended(d, TRUE, "GetBookmark")
        ELSE IF run.r.err
        THEN Ended(StorageUpdateBookmarkStatus(d, id, "failed").db, TRUE, "Scrape")
        ELSE IF stored.err THEN Ended(stored.db, TRUE, "StoreContent")
        ELSE IF GetContent(stored.db, id).err THEN Ended(stored.db, TRUE, "GetContent")
        ELSE IF PipelineFails(content.clean_text, run.providerErr)
        THEN Ended(stored.db, TRUE, "GenerateEmbeddingWithChunking")
        ELSE IF multi.err THEN Ended(multi.db, TRUE, "StoreMultipleChunkEmbeddings")
        ELSE Ended(marked.db, marked.err, "UpdateBookmarkStatus")

\* the body of the loop of BulkScraper.scrapeAll for one bookmark id, from
\* GetBookmark to the item's final entry: the database it leaves and the
\* entry it writes
ScrapeItem(d, fk, id, run) ==
    LET updated == UpdateBookmark(d, id, run.page.Title, run.page.Description,
                                  run.refused = "bookmarks_fts")
        stored  == StoreContent(updated.db, fk, id, run.page.Content, run.page.CleanText,
                                run.refused)
    IN  IF GetBookmark(d, id).err THEN [db |-> d, entry |-> Progress(BookmarkError, ErrText)]
        ELSE IF ScrapeFailed(run.r) \/ updated.err
        THEN [db |-> d, entry |-> ItemResult(FALSE, run.r, updated.err, FALSE)]
        ELSE [db |-> stored.db, entry |-> ItemResult(FALSE, run.r, FALSE, stored.err)]

\* Handler.RescrapeBookmark: the calls it makes on the store
RescrapeBookmark(d, fk, id, run, hasProcessor) ==
    LET updated == UpdateBookmark(d, id, run.page.Title, run.page.Description,
                                  run.refused = "bookmarks_fts")
        stored  == StoreContent(updated.db, fk, id, run.page.Content, run.page.CleanText,
                                run.refused)
        content == CHOOSE c \in ContentOf(stored.db, id) : TRUE
        single  == StoreEmbedding(stored.db, fk, content.id, run.refused = "embeddings")
    IN  IF GetBookmark(d, id).err  THEN Out(d, TRUE)
        ELSE IF ScrapeFailed(run.r) THEN Out(d, TRUE)
        ELSE IF updated.err        THEN Out(updated.db, TRUE)
        ELSE IF stored.err         THEN Out(stored.db, FALSE)
        ELSE IF ~hasProcessor \/ GetContent(stored.db, id).err \/ run.providerErr
        THEN Out(stored.db, FALSE)
        ELSE Out(single.db, FALSE)

(* ---------------------------------------------------------------------- *)
(* Actions of the store: one call each, made on the single connection of   *)
(* the pool (db.SetMaxOpenConns(1)), so calls do not interleave            *)
(* ---------------------------------------------------------------------- *)
\* the ids callers pass: the ids of the rows and an id no row has
MissingId      == IntText(MaxUrls + 1)
BookmarkIdsNow == {b.id : b \in db.bookmarks} \cup {MissingId}
ContentIds     == 1..MaxContentId

\* the counters and tables stay within the bounds
WithinBounds(d) ==
    /\ d.seqContent <= MaxContentId
    /\ BagCardinality(d.embeddings) <= MaxEmbeddings
    /\ \A b \in d.bookmarks : b.rowid <= MaxUrls

\* what the observer keeps of a call: everything, or nothing when the
\* specification at hand does not watch the call
Seen(watched, rec) == IF watched THEN rec ELSE NoStoreCall

\* a call returns: the database it leaves and what the caller learns
Returns(watched, op, arg, out) ==
    /\ WithinBounds(out.db)
    /\ db' = out.db
    /\ last' = Seen(watched, [op |-> op, arg |-> arg, err |-> out.err])
    /\ UNCHANGED <<foreignKeys, conn>>

CallImportBookmarks(watched, maxRows) ==
    \E batch \in UNION {[1..n -> [URL : Urls, Title : {ImportedTitle}]] : n \in 1..MaxBatch} :
    \E refused \in SUBSET (1..Len(batch)) :
        LET out == ImportBookmarks(db, batch, refused)
        IN  /\ WithinBounds(out.db)
            /\ Cardinality(out.db.bookmarks) <= maxRows
            /\ db' = out.db
            /\ last' = Seen(watched, [op |-> "ImportBookmarks", arg |-> batch, err |-> out.err,
                                      result |-> out.result])
            /\ UNCHANGED <<foreignKeys, conn>>

CallAddBookmark(watched, maxRows) ==
    \E url \in Urls :
        /\ Cardinality(AddBookmark(db, url, ImportedTitle).db.bookmarks) <= maxRows
        /\ Returns(watched, "AddBookmark", url, AddBookmark(db, url, ImportedTitle))

\* the reads by id: GetBookmark, GetContent, GetEmbedding
CallGet(ids, cids) ==
    \/ \E id \in ids : Returns(TRUE, "GetBookmark", id, GetBookmark(db, id))
    \/ \E id \in ids : Returns(TRUE, "GetContent", id, GetContent(db, id))
    \/ \E cid \in cids : Returns(TRUE, "GetEmbedding", cid, GetEmbedding(db, cid))

CallUpdateBookmarkStatus(watched, ids) ==
    \E id \in ids, st \in {"pending", "completed", "failed"} :
        Returns(watched, "UpdateBookmarkStatus", id, StorageUpdateBookmarkStatus(db, id, st))

CallUpdateBookmark(watched, ids) ==
    \E id \in ids, page \in Pages, refused \in BOOLEAN :
        Returns(watched, "UpdateBookmark", id,
                UpdateBookmark(db, id, page.Title, page.Description, refused))

CallStoreContent(watched, ids) ==
    \E id \in ids, page \in Pages, refused \in {"none", "content", "content_fts"} :
        Returns(watched, "StoreContent", id,
                StoreContent(db, foreignKeys, id, page.Content, page.CleanText, refused))

CallStoreEmbedding(watched, cids) ==
    \E cid \in cids, refused \in BOOLEAN :
        Returns(watched, "StoreEmbedding", cid, StoreEmbedding(db, foreignKeys, cid, refused))

CallStoreMultipleChunkEmbeddings(watched, cids) ==
    \E cid \in cids, chunks \in ChunkLists :
        \E n \in {Len(chunks), Len(chunks) + 1}, failAt \in 0..Len(chunks) :
            Returns(watched, "StoreMultipleChunkEmbeddings",
                    [contentID |-> cid, chunks |-> chunks],
                    StoreMultipleChunkEmbeddings(db, foreignKeys, cid, Vectors(n), chunks, failAt))

CallBatchStoreEmbeddings(watched, ids) ==
    \E n \in 1..2 : \E cids \in [1..n -> ids], failAt \in 0..n :
        Returns(watched, "BatchStoreEmbeddings", cids,
                BatchStoreEmbeddings(db, foreignKeys, cids, failAt))

CallDeleteBookmark(watched, bookmarkIDs_) ==
    \E bookmarkID \in bookmarkIDs_ :
        Returns(watched, "DeleteBookmark", bookmarkID,
                DeleteBookmark(db, foreignKeys, bookmarkID))

(* ---------------------------------------------------------------------- *)
(* Specifications of the store                                             *)
(* ---------------------------------------------------------------------- *)
\* storage.New: an empty database; nothing in the code sets the
\* foreign_keys pragma of the connection, so the build's default decides
StoreInit ==
    /\ JobInit
    /\ db = EmptyDB
    /\ foreignKeys \in BOOLEAN
    /\ conn = Idle
    /\ last = NoStoreCall
    /\ chunker = NoText
    /\ search = NoSearch
    /\ processor = NoProcessor

\* the integers DeleteBookmark is called with, and those that are no row's id
DeleteIds        == 1..(MaxUrls + 1)
MissingDeleteIds == {n \in DeleteIds : BookmarksById(db, IntText(n)) = {}}

\* the bookmark rows: batch import and the single insert, both watched
ImportSpec ==
    /\ StoreInit
    /\ [][
          /\ \/ CallImportBookmarks(TRUE, MaxUrls)
             \/ CallAddBookmark(TRUE, MaxUrls)
             \/ CallUpdateBookmarkStatus(FALSE, BookmarkIdsNow)
          /\ UNCHANGED <<jobState, ret, snap, history, chunker, search, processor>>
      ]_vars

\* the rows and their lexical indexes: every call that writes a title, a
\* description or a clean text, and the delete, which is watched
IndexSpec ==
    /\ StoreInit
    /\ [][
          /\ \/ CallImportBookmarks(FALSE, MaxOwners)
             \/ CallAddBookmark(FALSE, MaxOwners)
             \/ CallUpdateBookmarkStatus(FALSE, BookmarkIdsNow)
             \/ CallUpdateBookmark(FALSE, BookmarkIdsNow)
             \/ CallStoreContent(FALSE, BookmarkIdsNow)
             \/ CallStoreEmbedding(FALSE, ContentIds)
             \/ CallDeleteBookmark(TRUE, DeleteIds)
          /\ UNCHANGED <<jobState, ret, snap, history, chunker, search, processor>>
      ]_vars

\* the same store with a caller that passes ids no row has; only those
\* calls are watched
NotFoundSpec ==
    /\ StoreInit
    /\ [][
          /\ \/ CallImportBookmarks(FALSE, MaxOwners)
             \/ CallAddBookmark(FALSE, MaxOwners)
             \/ CallUpdateBookmark(FALSE, BookmarkIdsNow \ {MissingId})
             \/ CallStoreContent(FALSE, BookmarkIdsNow)
             \/ CallStoreEmbedding(FALSE, ContentIds)
             \/ CallDeleteBookmark(FALSE, DeleteIds \ MissingDeleteIds)
             \/ CallGet({MissingId}, {cid \in ContentIds : BagToSet(ChunksOf(db, cid)) = {}})
             \/ CallUpdateBookmarkStatus(TRUE, {MissingId})
             \/ CallUpdateBookmark(TRUE, {MissingId})
             \/ CallDeleteBookmark(TRUE, MissingDeleteIds)
          /\ UNCHANGED <<jobState, ret, snap, history, chunker, search, processor>>
      ]_vars

\* the content rows and their chunks: every call that writes the
\* embeddings table, and the calls that create and remove its owners; the
\* replacement of a chunk set is watched
ChunkSpec ==
    /\ StoreInit
    /\ [][
          /\ \/ CallImportBookmarks(FALSE, MaxOwners)
             \/ CallAddBookmark(FALSE, MaxOwners)
             \/ CallStoreContent(FALSE, BookmarkIdsNow)
             \/ CallStoreEmbedding(FALSE, ContentIds)
             \/ CallStoreMultipleChunkEmbeddings(TRUE, ContentIds)
             \/ CallBatchStoreEmbeddings(FALSE, ContentIds)
             \/ CallDeleteBookmark(FALSE, DeleteIds)
          /\ UNCHANGED <<jobState, ret, snap, history, chunker, search, processor>>
      ]_vars

\* the ids of content rows callers have read from the store
StoredContentIds  == {c.id : c \in db.content}

\* the rows and their owners under callers that pass only ids they have
\* read from the store
OwnerSpec ==
    /\ StoreInit
    /\ [][
          /\ \/ CallImportBookmarks(FALSE, MaxOwners)
             \/ CallAddBookmark(FALSE, MaxOwners)
             \/ CallStoreContent(FALSE, {b.id : b \in db.bookmarks})
             \/ CallStoreEmbedding(FALSE, StoredContentIds)
             \/ CallStoreMultipleChunkEmbeddings(FALSE, StoredContentIds)
             \/ CallBatchStoreEmbeddings(FALSE, StoredContentIds)
             \/ CallDeleteBookmark(FALSE, DeleteIds)
          /\ UNCHANGED <<jobState, ret, snap, history, chunker, search, processor>>
      ]_vars

(* ---------------------------------------------------------------------- *)
(* The callers of the store as actions                                     *)
(* ---------------------------------------------------------------------- *)
\* one pass of the loop body of scrapeAll: its calls on the store and the
\* entry it writes to the job's map
CallScrapeItem ==
    \E id \in BookmarkIdsNow, run \in Runs :
        LET out == ScrapeItem(db, foreignKeys, id, run)
        IN  /\ WithinBounds(out.db)
            /\ db' = out.db
            /\ UpdateBookmarkStatus(id, out.entry.Status, out.entry.Error)
            /\ last' = NoStoreCall
            /\ UNCHANGED <<foreignKeys, conn, status, bookmarkIDs, current, total, currentURL,
                           pauseChan, resumeChan, stopChan, ctxDone, workers>>

CallProcessBookmarkContent ==
    \E id \in BookmarkIdsNow, run \in Runs :
        LET out == ProcessBookmarkContent(db, foreignKeys, id, run)
        IN  /\ WithinBounds(out.db)
            /\ db' = out.db
            /\ last' = [op |-> "ProcessBookmarkContent", arg |-> id, err |-> out.err,
                        stage |-> out.stage]
            /\ UNCHANGED <<foreignKeys, conn, jobState>>

CallRescrapeBookmark ==
    \E id \in BookmarkIdsNow, run \in Runs, hasProcessor \in BOOLEAN :
        /\ Returns(FALSE, "RescrapeBookmark", id,
                   RescrapeBookmark(db, foreignKeys, id, run, hasProcessor))
        /\ UNCHANGED jobState

\* imported bookmarks and the three callers that fetch their pages: the
\* orchestrator, the background processor, the rescrape handler
PipeSpec ==
    /\ StoreInit
    /\ [][
          /\ \/ CallImportBookmarks(FALSE, MaxOwners) /\ UNCHANGED jobState
             \/ CallScrapeItem
             \/ CallProcessBookmarkContent
             \/ CallRescrapeBookmark
          /\ UNCHANGED <<ret, snap, history, chunker, search, processor>>
      ]_vars

(* ---------------------------------------------------------------------- *)
(* Properties of the store and of its callers                              *)
(* ---------------------------------------------------------------------- *)
\* the bookmark is marked completed and owns a content row stored after the
\* database `before`, with a chunk set
\* C11: whenever the orchestrator reports an item scraped, the bookmark's
\* metadata was updated, StoreContent succeeded for it in that pass, its
\* chunk set was stored and the bookmark was marked completed: the item has
\* a content row written by that pass, a persisted chunk set and the status
\* completed.
C11_ScrapedAfterStoreChunkComplete ==
    [][\A id \in Written :
          bookmarkStatuses'[id].Status = BookmarkScraped
             => /\ \E b \in BookmarksById(db', id) : b.status = "completed"
                /\ \E c \in ContentOf(db', id) :
                      /\ c.id > db.seqContent
                      /\ ChunksOf(db', c.id) # EmptyBag]_vars

\* C12: after DeleteBookmark(id) succeeds the store holds no bookmark row
\* with that id, no content row owned by it, no embedding chunk of a content
\* row it owned, and no entry of the title/description index or of the
\* content-text index that belonged to the bookmark or its content.
C12_DeleteLeavesNothing ==
    [][(last'.op = "DeleteBookmark" /\ ~last'.err)
          => \A b \in BookmarksById(db, IntText(last'.arg)) :
                /\ BookmarksById(db', b.id) = {}
                /\ ContentOf(db', b.id) = {}
                /\ \A c \in ContentOf(db, b.id) :
                      /\ ChunksOf(db', c.id) = EmptyBag
                      /\ \A f \in db'.content_fts : f.rowid # c.id
                /\ \A f \in db'.bookmarks_fts : f.rowid # b.rowid]_vars

\* C13: after any sequence of ImportBookmarks, UpdateBookmark, StoreContent
\* and DeleteBookmark the title/description index holds exactly one entry
\* per bookmark row, with its current title and description, and the content
\* index exactly one entry per content row, with its current clean text.
C13_IndexMirrorsRows ==
    /\ db.bookmarks_fts =
          {[rowid |-> b.rowid, title |-> b.title, description |-> b.description] :
              b \in db.bookmarks}
    /\ db.content_fts = {[rowid |-> c.id, clean_text |-> c.clean_text] : c \in db.content}

\* C14: every content row references an existing bookmark, every embedding
\* row references an existing content row, and a bookmark has at most one
\* content row; so no chunk stays attached to a content id that a re-scrape
\* replaced.
C14_RowsHaveOwners ==
    /\ \A c \in db.content : BookmarksById(db, c.bookmark_id) # {}
    /\ \A e \in BagToSet(db.embeddings) : ContentById(db, e.content_id) # {}
    /\ \A b \in db.bookmarks : Cardinality(ContentOf(db, b.id)) <= 1

ConnFreeAlways(c) == TRUE
\* db.SetMaxOpenConns(1): a call gets the connection only when no
\* transaction holds it
ConnFree(c) == c = Idle

\* the length check fails before Begin, or Begin takes the connection
BeginStoreMultipleChunkEmbeddings(cids) ==
    \E cid \in cids, chunks \in ChunkLists :
        \E n \in {Len(chunks), Len(chunks) + 1}, failAt \in 0..Len(chunks) :
            /\ ConnFree(conn)
            /\ IF n # Len(chunks)
               THEN Returns(TRUE, "StoreMultipleChunkEmbeddings",
                            [contentID |-> cid, chunks |-> chunks], Out(db, TRUE))
               ELSE /\ conn' = [tx |-> "StoreMultipleChunkEmbeddings", contentID |-> cid,
                                chunks |-> chunks, failAt |-> failAt, i |-> 0,
                                cleared |-> FALSE, journal |-> db]
                    /\ last' = NoStoreCall
                    /\ UNCHANGED <<db, foreignKeys>>

\* the transaction ends: the connection goes back to the pool and the call
\* returns
EndStoreMultipleChunkEmbeddings(out) ==
    /\ db' = out.db
    /\ conn' = Idle
    /\ last' = [op |-> "StoreMultipleChunkEmbeddings",
                arg |-> [contentID |-> conn.contentID, chunks |-> conn.chunks],
                err |-> out.err]
    /\ UNCHANGED foreignKeys

\* the next statement of the open transaction: the DELETE, then one INSERT
\* per chunk, then Commit; a refused INSERT returns through the deferred
\* Rollback
ExecStoreMultipleChunkEmbeddings ==
    /\ conn # Idle
    /\ LET cid == conn.contentID
           n   == Len(conn.chunks)
           refusedNow == \/ conn.i + 1 = conn.failAt
                         \/ foreignKeys /\ ContentById(db, cid) = {}
       IN  IF ~conn.cleared
           THEN /\ db' = DeleteEmbeddings(db, {cid})
                /\ conn' = [conn EXCEPT !.cleared = TRUE]
                /\ last' = NoStoreCall
                /\ UNCHANGED foreignKeys
           ELSE IF conn.i = n
           THEN EndStoreMultipleChunkEmbeddings(Commit(conn.journal, db))
           ELSE IF refusedNow
           THEN EndStoreMultipleChunkEmbeddings(Rollback(conn.journal, db))
           ELSE /\ db' = [db EXCEPT !.embeddings =
                             @ (+) SetToBag({EmbeddingRow(cid, conn.i, conn.chunks[conn.i + 1])})]
                /\ WithinBounds(db')
                /\ conn' = [conn EXCEPT !.i = @ + 1]
                /\ last' = NoStoreCall
                /\ UNCHANGED foreignKeys

\* a reader of the embeddings of a content id, on the same pool
ReadEmbedding(cids) ==
    /\ ConnFree(conn)
    /\ \E cid \in cids : Returns(TRUE, "GetEmbedding", cid, GetEmbedding(db, cid))

TxSpec ==
    /\ StoreInit
    /\ [][
          /\ \/ ConnFree(conn) /\ CallImportBookmarks(FALSE, MaxOwners)
             \/ ConnFree(conn) /\ CallStoreContent(FALSE, BookmarkIdsNow)
             \/ ConnFree(conn) /\ CallStoreEmbedding(FALSE, ContentIds)
             \/ BeginStoreMultipleChunkEmbeddings(ContentIds)
             \/ ExecStoreMultipleChunkEmbeddings
             \/ ReadEmbedding(ContentIds)
          /\ UNCHANGED <<jobState, ret, snap, history, chunker, search, processor>>
      ]_vars

\* C16: StoreMultipleChunkEmbeddings replaces the chunk set of a content id
\* as a whole: when it returns without error the rows of that content id
\* are exactly the chunks given and no other content id was touched; when
\* it returns an error (lengths differ, an INSERT refused) the database is
\* what it was before the call; and a reader never reads while a
\* transaction has written part of its work.
C16_AtomicReplaceAll ==
    [][/\ last'.op = "StoreMultipleChunkEmbeddings"
             => LET before == IF conn = Idle THEN db ELSE conn.journal
                    cid    == last'.arg.contentID
                    chunks == last'.arg.chunks
                IN  IF last'.err THEN db' = before
                    ELSE /\ ChunksOf(db', cid) = ChunkRows(cid, chunks, Len(chunks))
                         /\ \A c \in ContentIds \ {cid} : ChunksOf(db', c) = ChunksOf(before, c)
       /\ last'.op = "GetEmbedding"
             => ChunksOf(db, last'.arg)
                   = ChunksOf(IF conn = Idle THEN db ELSE conn.journal, last'.arg)]_vars

\* a transaction is half way through replacing a stored chunk set: the old
\* rows are deleted and one of two new rows is written
C16_Witness ==
    /\ conn # Idle
    /\ conn.cleared /\ conn.i = 1 /\ Len(conn.chunks) = 2
    /\ ChunksOf(conn.journal, conn.contentID) # EmptyBag
    /\ ChunksOf(db, conn.contentID) # ChunksOf(conn.journal, conn.contentID)

\* C17: for every content id the chunk_index values of its embedding rows
\* are unique and are exactly 0..n-1, n the number of its rows, whichever
\* call wrote them.
C17_ChunkIndexContiguousUnique ==
    \A cid \in ContentIds :
        {e.chunk_index : e \in BagToSet(ChunksOf(db, cid))}
            = 0..(BagCardinality(ChunksOf(db, cid)) - 1)

\* C18: when ProcessBookmarkContent returns because the embedding provider
\* failed or no chunk could be produced, it returns an error, the
\* bookmark's status is failed, and the content row of the run has no
\* chunk.
C18_ProviderFailureMarksFailed ==
    [][(last'.op = "ProcessBookmarkContent" /\ last'.stage = "GenerateEmbeddingWithChunking")
          => /\ last'.err
             /\ {b.status : b \in BookmarksById(db', last'.arg)} = {"failed"}
             /\ \A c \in ContentOf(db', last'.arg) : ChunksOf(db', c.id) = EmptyBag]_vars

\* C19: GetBookmark, UpdateBookmarkStatus, UpdateBookmark, DeleteBookmark,
\* GetContent and GetEmbedding called with an id that has no row return an
\* error and leave every table and both lexical indexes as they were.
C19_NotFoundLeavesStore ==
    [][(\/ /\ last'.op \in {"GetBookmark", "UpdateBookmarkStatus", "UpdateBookmark"}
           /\ BookmarksById(db, last'.arg) = {}
        \/ last'.op = "DeleteBookmark" /\ BookmarksById(db, IntText(last'.arg)) = {}
        \/ last'.op = "GetContent" /\ ContentOf(db, last'.arg) = {}
        \/ last'.op = "GetEmbedding" /\ ChunksOf(db, last'.arg) = EmptyBag)
          => last'.err /\ db' = db]_vars

\* DeleteBookmark returned not-found for an id whose content row its
\* transaction had deleted: the row is back
C19_Witness ==
    /\ last.op = "DeleteBookmark" /\ last.err
    /\ BookmarksById(db, IntText(last.arg)) = {}
    /\ ContentOf(db, IntText(last.arg)) # {}

(* ---------------------------------------------------------------------- *)
(* EmbeddingService.ChunkText: a text is the sequence of its runes         *)
(* ---------------------------------------------------------------------- *)
MaxTextLen == 10
MaxTokens  == 1

\* the estimate counts four runes to a token
CharsPerToken == 4
estimateTokenCount(text) == Len(text) \div CharsPerToken

\* strings.TrimSpace
WhiteSpace == {" ", "\n", "\t", "\r"}
RECURSIVE TrimLeft(_)
TrimLeft(t) == IF t # <<>> /\ Head(t) \in WhiteSpace THEN TrimLeft(Tail(t)) ELSE t
RECURSIVE TrimRight(_)
TrimRight(t) ==
    IF t # <<>> /\ t[Len(t)] \in WhiteSpace THEN TrimRight(SubSeq(t, 1, Len(t) - 1)) ELSE t
TrimSpace(t) == TrimRight(TrimLeft(t))

\* strings.Contains and strings.Split for a separator that is not empty
FoundAt(t, sep, i) == i + Len(sep) - 1 <= Len(t) /\ SubSeq(t, i, i + Len(sep) - 1) = sep
Contains(t, sep) == \E i \in 1..Len(t) : FoundAt(t, sep, i)
RECURSIVE Split(_, _)
Split(t, sep) ==
    IF ~Contains(t, sep) THEN <<t>>
    ELSE LET i == CHOOSE j \in 1..Len(t) :
                      FoundAt(t, sep, j) /\ \A k \in 1..(j - 1) : ~FoundAt(t, sep, k)
         IN  <<SubSeq(t, 1, i - 1)>> \o Split(SubSeq(t, i + Len(sep), Len(t)), sep)

\* the separators of ChunkText in their order of preference, the empty one
\* last
Separators ==
    << <<"\n", "\n">>, <<"\n">>, <<".", " ">>, <<"!", " ">>, <<"?", " ">>,
       <<";", " ">>, <<",", " ">>, <<" ">>, <<>> >>

\* splitByCharacterCount: pieces of maxTokens * 4 runes, each trimmed
RECURSIVE SplitFrom(_, _, _)
SplitFrom(runes, i, maxChars) ==
    IF i >= Len(runes) THEN <<>>
    ELSE LET end == IF i + maxChars > Len(runes) THEN Len(runes) ELSE i + maxChars
         IN  <<TrimSpace(SubSeq(runes, i + 1, end))>> \o SplitFrom(runes, i + maxChars, maxChars)
splitByCharacterCount(text, maxTokens) == SplitFrom(text, 0, maxTokens * CharsPerToken)

RECURSIVE recursiveSplit(_, _, _)
RECURSIVE MergeLoop(_, _, _, _, _, _, _)

\* mergeParts, a part that does not fit: the current chunk is saved and the
\* part starts the next one, or the part alone is split further
MergeOverflow(result, currentChunk, part, separators, maxTokens) ==
    IF currentChunk # <<>>
    THEN [result |-> result \o <<TrimSpace(currentChunk)>>, currentChunk |-> part]
    ELSE [result |-> result \o recursiveSplit(part, separators, maxTokens),
          currentChunk |-> <<>>]

\* the loop of mergeParts over parts from number k on
MergeLoop(parts, k, result, currentChunk, separator, separators, maxTokens) ==
    IF k > Len(parts)
    THEN IF currentChunk # <<>> THEN result \o <<TrimSpace(currentChunk)>> ELSE result
    ELSE LET part      == TrimSpace(parts[k])
             testChunk == IF currentChunk # <<>> THEN currentChunk \o separator \o part
                          ELSE part
             over      == MergeOverflow(result, currentChunk, part, separators, maxTokens)
         IN  IF part = <<>>
             THEN MergeLoop(parts, k + 1, result, currentChunk, separator, separators, maxTokens)
             ELSE IF estimateTokenCount(testChunk) <= maxTokens
             THEN MergeLoop(parts, k + 1, result, testChunk, separator, separators, maxTokens)
             ELSE MergeLoop(parts, k + 1, over.result, over.currentChunk,
                            separator, separators, maxTokens)
mergeParts(parts, separator, separators, maxTokens) ==
    MergeLoop(parts, 1, <<>>, <<>>, separator, separators, maxTokens)

\* the loop of recursiveSplit over the separators from number k on
RECURSIVE SeparatorLoop(_, _, _, _)
SeparatorLoop(text, separators, k, maxTokens) ==
    IF k > Len(separators) THEN splitByCharacterCount(text, maxTokens)
    ELSE IF separators[k] = <<>> THEN splitByCharacterCount(text, maxTokens)
    ELSE IF Contains(text, separators[k])
    THEN mergeParts(Split(text, separators[k]), separators[k], separators, maxTokens)
    ELSE SeparatorLoop(text, separators, k + 1, maxTokens)

recursiveSplit(text, separators, maxTokens) ==
    IF estimateTokenCount(text) <= maxTokens THEN <<TrimSpace(text)>>
    ELSE SeparatorLoop(text, separators, 1, maxTokens)

ChunkText(text, maxTokens) ==
    IF text = <<>> THEN <<>>
    ELSE IF estimateTokenCount(text) <= maxTokens THEN <<text>>
    ELSE recursiveSplit(text, Separators, maxTokens)

CallChunkText ==
    /\ ~chunker.done
    /\ chunker' = [chunker EXCEPT !.done = TRUE, !.chunks = ChunkText(chunker.text, chunker.maxTokens)]
    /\ UNCHANGED <<jobState, ret, snap, history, storeVars, search, processor>>

\* a text and a budget to chunk, the text made of a letter, a space and a
\* full stop, next to a store and an orchestrator that take no step
ChunkInit ==
    /\ JobInit
    /\ db = EmptyDB /\ foreignKeys = FALSE /\ conn = Idle /\ last = NoStoreCall
    /\ search = NoSearch
    /\ processor = NoProcessor
    /\ chunker \in {[done |-> FALSE, text |-> t, maxTokens |-> m, chunks |-> <<>>] :
                        t \in UNION {[1..n -> {"a", " ", "."}] : n \in 0..MaxTextLen},
                        m \in 1..MaxTokens}

ChunkTextSpec == ChunkInit /\ [][CallChunkText]_vars

\* C20: every chunk ChunkText returns has an estimated token count of at
\* most maxTokens, a piece over the budget that follows a non-empty
\* accumulated chunk included.
C20_ChunksWithinBudget ==
    chunker.done =>
        \A i \in 1..Len(chunker.chunks) :
            estimateTokenCount(chunker.chunks[i]) <= chunker.maxTokens

\* C21: when ChunkText returns more than one chunk, the chunks put end to
\* end in index order are the source text once whitespace is left out of
\* both: no other rune is dropped, repeated or moved.
C21_ChunksReproduceSource ==
    (chunker.done /\ Len(chunker.chunks) > 1) =>
        LET chunks == chunker.chunks
            cat[k \in 0..Len(chunks)] == IF k = 0 THEN <<>> ELSE cat[k - 1] \o chunks[k]
            Inked(r) == r \notin WhiteSpace
        IN  SelectSeq(cat[Len(chunks)], Inked) = SelectSeq(chunker.text, Inked)

(* ---------------------------------------------------------------------- *)
(* Search: scores are thousandths (1000 is 1.0), factors are tenths, texts *)
(* are sequences of runes                                                  *)
(* ---------------------------------------------------------------------- *)
MaxRows == 2
MaxQueryWords == 5

\* 0.3 and 0.15, the floors of the two candidate sets; the sizes of the
\* candidate sets and of the answer
SemanticFloor  == 300
KeywordFloor   == 150
CandidateLimit == 50
TopResults     == 20

\* strings.ToLower and strings.Fields
ToLower(t) ==
    [i \in 1..Len(t) |-> CASE t[i] = "A" -> "a" [] t[i] = "B" -> "b" [] OTHER -> t[i]]
RECURSIVE Fields(_)
Fields(t) ==
    LET s   == TrimLeft(t)
        end == CHOOSE n \in 1..(Len(s) + 1) :
                   /\ n = Len(s) + 1 \/ s[n] \in WhiteSpace
                   /\ \A k \in 1..(n - 1) : s[k] \notin WhiteSpace
    IN  IF s = <<>> THEN <<>>
        ELSE <<SubSeq(s, 1, end - 1)>> \o Fields(SubSeq(s, end, Len(s)))

\* a boost that multiplies for the title and again for the description
applyExactMatchBoostStacked(score, b, queryText) ==
    LET queryWords == Fields(ToLower(queryText))
        In(text)   == \E i \in 1..Len(queryWords) : Contains(ToLower(text), queryWords[i])
        s1         == IF In(b.Title) THEN (score * 15) \div 10 ELSE score
    IN  IF queryText = <<>> THEN score
        ELSE IF In(b.Description) THEN (s1 * 13) \div 10 ELSE s1
\* applyExactMatchBoost: the first of title, description and content that
\* holds a query word decides the factor
applyExactMatchBoost(score, b, queryText) ==
    LET queryWords == Fields(ToLower(queryText))
        In(text)   == \E i \in 1..Len(queryWords) : Contains(ToLower(text), queryWords[i])
    IN  IF queryText = <<>> THEN score
        ELSE IF In(b.Title) THEN (score * 15) \div 10
        ELSE IF b.Description # <<>> /\ In(b.Description) THEN (score * 13) \div 10
        ELSE IF b.CleanText # <<>> /\ In(b.CleanText) THEN (score * 12) \div 10
        ELSE score

\* applyFieldSpecificBoost: the whole query in the title, else in the URL,
\* else the share of query words that are title words
applyFieldSpecificBoost(score, b, queryText) ==
    LET queryLower   == ToLower(queryText)
        titleLower   == ToLower(b.Title)
        queryWords   == Fields(queryLower)
        titleWords   == Fields(titleLower)
        titleMatches == Cardinality({i \in 1..Len(queryWords) :
                            \E j \in 1..Len(titleWords) : queryWords[i] = titleWords[j]})
    IN  IF queryText = <<>> THEN score
        ELSE IF Contains(titleLower, queryLower) THEN score * 3
        ELSE IF Contains(ToLower(b.URL), queryLower) THEN score * 2
        ELSE IF titleMatches > 0 /\ 2 * titleMatches >= Len(queryWords) THEN score * 2
        ELSE IF titleMatches > 0 /\ 4 * titleMatches >= Len(queryWords)
        THEN (score * 15) \div 10
        ELSE score

\* a cut that keeps every row
LimitOff(rows, n) == rows
\* LIMIT ? of the two queries, and allResults[:20]
Limit(rows, n) == SubSeq(rows, 1, IF Len(rows) < n THEN Len(rows) ELSE n)

\* semanticSearch: the chunk rows nearer than distance 1.0, nearest first,
\* one result per chunk with similarity 1 - distance
semanticSearch(in, limit) ==
    LET Near(row) == row.Distance < 1000
        rows      == Limit(SelectSeq(in.chunks, Near), limit)
    IN  [k \in 1..Len(rows) |->
            [ID |-> rows[k].ID, RelevanceScore |-> 1000 - rows[k].Distance,
             SearchType |-> "semantic"]]

\* keywordSearch: the rows of the UNION over the two indexes in the order of
\* their raw bm25 value, one result per row
keywordSearch(in, limit) ==
    LET rows == Limit(in.matches, limit)
    IN  [k \in 1..Len(rows) |->
            [ID |-> rows[k].ID, RelevanceScore |-> rows[k].Relevance,
             SearchType |-> "keyword"]]

\* normalizeBM25Scores: divide by the largest score, found from 0.0 up
normalizeBM25Scores(results) ==
    LET maxScore == SetMax({0} \cup {results[k].RelevanceScore : k \in 1..Len(results)})
    IN  IF Len(results) = 0 \/ maxScore <= 0 THEN results
        ELSE [k \in 1..Len(results) |->
                 [results[k] EXCEPT !.RelevanceScore = (@ * 1000) \div maxScore]]

\* the weight and the two boosts of one candidate
Boosted(result, tenths, in) ==
    LET b == in.bookmarks[result.ID]
    IN  [result EXCEPT !.RelevanceScore =
            applyFieldSpecificBoost(
                applyExactMatchBoost((@ * tenths) \div 10, b, in.query), b, in.query)]

\* the loop of HybridSearch over the semantic results from number k on
RECURSIVE SemanticLoop(_, _, _, _)
SemanticLoop(results, k, resultMap, in) ==
    IF k > Len(results) THEN resultMap
    ELSE IF results[k].RelevanceScore < SemanticFloor
    THEN SemanticLoop(results, k + 1, resultMap, in)
    ELSE SemanticLoop(results, k + 1,
             (results[k].ID :> Boosted(results[k], 4, in)) @@ resultMap, in)

\* the loop of HybridSearch over the normalized keyword results
RECURSIVE KeywordLoop(_, _, _, _)
KeywordLoop(results, k, resultMap, in) ==
    LET result   == Boosted(results[k], 6, in)
        existing == resultMap[result.ID]
    IN  IF k > Len(results) THEN resultMap
        ELSE IF results[k].RelevanceScore < KeywordFloor
        THEN KeywordLoop(results, k + 1, resultMap, in)
        ELSE IF result.ID \in DOMAIN resultMap
        THEN KeywordLoop(results, k + 1,
                 [resultMap EXCEPT ![result.ID] =
                     [existing EXCEPT !.RelevanceScore = @ + result.RelevanceScore,
                                      !.SearchType = "hybrid"]], in)
        ELSE KeywordLoop(results, k + 1, (result.ID :> result) @@ resultMap, in)

\* the two nested loops that sort allResults by descending score, from the
\* pass of the outer loop at i on; inner[j] is the slice once the inner loop
\* has compared the entry at i with those up to j
RECURSIVE SortLoop(_, _)
SortLoop(a, i) ==
    IF i >= Len(a) THEN a
    ELSE LET inner[j \in i..Len(a)] ==
                 IF j = i THEN a
                 ELSE LET b == inner[j - 1]
                      IN  IF b[i].RelevanceScore < b[j].RelevanceScore
                          THEN [b EXCEPT ![i] = b[j], ![j] = b[i]]
                          ELSE b
         IN  SortLoop(inner[Len(a)], i + 1)

\* Storage.HybridSearch; the range over resultMap starts at a place the
\* runtime picks, start, and goes round
HybridSearch(in, start) ==
    LET resultMap  == KeywordLoop(normalizeBM25Scores(keywordSearch(in, CandidateLimit)), 1,
                          SemanticLoop(semanticSearch(in, CandidateLimit), 1, <<>>, in), in)
        InMap(id)  == id \in DOMAIN resultMap
        ids        == SelectSeq([id \in 1..Len(in.bookmarks) |-> id], InMap)
        allResults == [k \in 1..Len(ids) |-> resultMap[ids[((k - 1 + start) % Len(ids)) + 1]]]
    IN  IF {"semantic", "keyword"} \cap in.fail # {} THEN [err |-> TRUE, results |-> <<>>]
        ELSE [err |-> FALSE, results |-> Limit(SortLoop(allResults, 1), TopResults)]

\* Storage.KeywordSearch: the keyword results as the query returns them
KeywordSearch(in, limit) ==
    IF "keyword" \in in.fail THEN [err |-> TRUE, results |-> <<>>]
    ELSE [err |-> FALSE, results |-> keywordSearch(in, limit)]

\* ContentProcessor.HybridSearch answering an error when the query cannot be
\* embedded
ProcessorHybridSearchFails(in, start) ==
    IF "embedding" \in in.fail THEN [err |-> TRUE, results |-> <<>>]
    ELSE HybridSearch(in, start)
\* ContentProcessor.HybridSearch: keyword search when the query cannot be
\* embedded
ProcessorHybridSearch(in, start) ==
    IF "embedding" \in in.fail THEN KeywordSearch(in, TopResults)
    ELSE HybridSearch(in, start)

\* Handler.SearchBookmarks: 400 for a body that does not bind; the answer of
\* the content processor's hybrid search (hybrid) when one is configured,
\* keyword search without one or when hybrid search fails
SearchBookmarks(in, hybrid) ==
    LET lexical == KeywordSearch(in, TopResults)
    IN  IF "bind" \in in.fail THEN [status |-> 400, results |-> <<>>]
        ELSE IF in.hasProcessor /\ ~hybrid.err THEN [status |-> 200, results |-> hybrid.results]
        ELSE IF lexical.err THEN [status |-> 500, results |-> <<>>]
        ELSE [status |-> 200, results |-> lexical.results]

\* the requests to search with and what they meet in the store: one
\* bookmark under every query (the boosts), two bookmarks with their chunk
\* rows and the rows of the indexes that hold the query (the fusion), one
\* bookmark more than an answer holds (the cut), and the calls that can
\* fail; one family each
SearchInputs ==
    LET Join(ws) ==
            LET j[k \in 0..Len(ws)] ==
                    IF k = 0 THEN <<>> ELSE IF k = 1 THEN ws[1] ELSE j[k - 1] \o <<" ">> \o ws[k]
            IN  j[Len(ws)]
        Row(title, url, description, text) ==
            [Title |-> title, URL |-> url, Description |-> description, CleanText |-> text]
        Asked(query, bookmarks, chunks, matches, hasProcessor, fail) ==
            [query |-> query, bookmarks |-> bookmarks, chunks |-> chunks, matches |-> matches,
             hasProcessor |-> hasProcessor, fail |-> fail]
        Queries == {Join(ws) : ws \in UNION {[1..n -> {<<"a">>, <<"b">>}] : n \in 0..MaxQueryWords}}
                       \cup {<<" ">>, <<"A">>}
        Fields3 == {<<>>, <<"a">>, <<"b">>}
        Two     == <<Row(<<"a">>, <<"u">>, <<>>, <<"a", " ", "c">>),
                     Row(<<"b">>, <<"u">>, <<"a">>, <<"a", " ", "c">>)>>
        ChunkSeqs ==
            {s \in UNION {[1..n -> [ID : 1..2, Distance : {500, 700, 900}]] : n \in 0..MaxRows} :
                \A k \in 1..(Len(s) - 1) : s[k].Distance <= s[k + 1].Distance}
        \* the rows of the two indexes for the query: an index matches a
        \* bookmark when the query occurs in its text; the raw values of an
        \* engine are all of one sign
        MatchRows(q, values) ==
            {row \in [ID : 1..2, Index : {"title", "content"}, Relevance : values] :
                IF row.Index = "content" THEN Contains(Two[row.ID].CleanText, q)
                ELSE Contains(Two[row.ID].Title, q) \/ Contains(Two[row.ID].Description, q)}
        MatchSeqs(q) ==
            UNION {{s \in UNION {[1..n -> MatchRows(q, values)] : n \in 0..MaxRows} :
                       /\ \A k \in 1..(Len(s) - 1) : s[k].Relevance <= s[k + 1].Relevance
                       /\ \A k, l \in 1..Len(s) :
                             (s[k].ID = s[l].ID /\ s[k].Index = s[l].Index) => k = l} :
                   values \in {{-8000, -1000}, {1000, 8000}}}
        Boost == {Asked(q, <<Row(t, u, d, c)>>, <<[ID |-> 1, Distance |-> 0]>>, <<>>, TRUE, {}) :
                     q \in Queries,
                     t \in Fields3 \cup {<<"a", "b">>, <<"A", " ", "b">>},
                     u \in {<<"u">>, <<"u", "a">>}, d \in Fields3, c \in Fields3}
        Fuse(q) == {Asked(q, Two, p[1], p[2], TRUE, {}) : p \in ChunkSeqs \X MatchSeqs(q)}
        Many  == {Asked(<<"c">>, [i \in 1..(TopResults + 1) |-> Row(<<"b">>, <<"u">>, <<>>, <<>>)],
                        [i \in 1..(TopResults + 1) |-> [ID |-> i, Distance |-> 500 + step * i]],
                        <<>>, TRUE, {}) : step \in {0, 5}}
        Fail  == {Asked(<<"a">>, Two, <<[ID |-> 1, Distance |-> 500]>>,
                        <<[ID |-> 1, Index |-> "title", Relevance |-> 1000]>>, p, f) :
                     p \in BOOLEAN, f \in SUBSET {"bind", "embedding", "semantic", "keyword"}}
    IN  <<Boost, Fuse(<<"a">>), Fuse(<<"c">>), Many, Fail>>

\* one request served: the answer of the handler, and what the content
\* processor returned on the way
CallSearchBookmarks ==
    /\ ~search.done
    /\ \E start \in 0..(Len(search.in.bookmarks) - 1) :
          \E hybrid \in {ProcessorHybridSearch(search.in, start)} :
             search' = [done |-> TRUE, in |-> search.in, start |-> start,
                        hybrid |-> hybrid,
                        answer |-> SearchBookmarks(search.in, hybrid)]
    /\ UNCHANGED <<jobState, ret, snap, history, storeVars, chunker, processor>>

\* a request to answer, next to a store and an orchestrator that take no step
SearchInit ==
    /\ JobInit
    /\ db = EmptyDB /\ foreignKeys = FALSE /\ conn = Idle /\ last = NoStoreCall
    /\ chunker = NoText
    /\ \E family \in DOMAIN SearchInputs :
          search \in {[done |-> FALSE, in |-> in] : in \in SearchInputs[family]}
    /\ processor = NoProcessor

SearchSpec == SearchInit /\ [][CallSearchBookmarks]_vars

(* ---------------------------------------------------------------------- *)
(* ProcessBookmarkContent call by call: every store call is a transaction  *)
(* of its own, and other callers' store calls may run in between           *)
(* ---------------------------------------------------------------------- *)
\* GetBookmark, Scrape and StoreContent
ProcessorStoreContent ==
    /\ processor.pc = "idle"
    /\ \E id \in BookmarkIdsNow, run \in Runs :
          LET stored == StoreContent(db, foreignKeys, id, run.page.Content, run.page.CleanText,
                                     run.refused)
              out    == IF GetBookmark(db, id).err THEN Ended(db, TRUE, "GetBookmark")
                        ELSE IF run.r.err
                        THEN Ended(StorageUpdateBookmarkStatus(db, id, "failed").db, TRUE, "Scrape")
                        ELSE Ended(stored.db, stored.err, "StoreContent")
          IN  /\ WithinBounds(out.db)
              /\ db' = out.db
              /\ processor' = IF out.err THEN NoProcessor ELSE [pc |-> "GetContent", id |-> id]
              /\ last' = IF out.err
                         THEN [op |-> "ProcessBookmarkContent", arg |-> id, err |-> TRUE,
                               stage |-> out.stage]
                         ELSE NoStoreCall
    /\ UNCHANGED <<foreignKeys, conn, jobState, ret, snap, history, chunker, search>>

\* GetContent: the content row the bookmark has now
ProcessorGetContent ==
    /\ processor.pc = "GetContent"
    /\ IF GetContent(db, processor.id).err
       THEN /\ processor' = NoProcessor
            /\ last' = [op |-> "ProcessBookmarkContent", arg |-> processor.id, err |-> TRUE,
                        stage |-> "GetContent"]
       ELSE /\ processor' = [pc |-> "StoreMultipleChunkEmbeddings", id |-> processor.id,
                             content |-> CHOOSE c \in ContentOf(db, processor.id) : TRUE]
            /\ last' = NoStoreCall
    /\ UNCHANGED <<db, foreignKeys, conn, jobState, ret, snap, history, chunker, search>>

\* GenerateEmbeddingWithChunking, StoreMultipleChunkEmbeddings with the id of
\* the content row read before, and UpdateBookmarkStatus
ProcessorStoreChunks ==
    /\ processor.pc = "StoreMultipleChunkEmbeddings"
    /\ \E providerErr \in BOOLEAN, failAt \in 0..1 :
          LET content == processor.content
              chunks  == ChunksOfText(content.clean_text)
              multi   == StoreMultipleChunkEmbeddings(db, foreignKeys, content.id,
                             Vectors(Len(chunks)), chunks, failAt)
              marked  == StorageUpdateBookmarkStatus(multi.db, processor.id, "completed")
              out     == IF PipelineFails(content.clean_text, providerErr)
                         THEN Ended(db, TRUE, "GenerateEmbeddingWithChunking")
                         ELSE IF multi.err THEN Ended(multi.db, TRUE, "StoreMultipleChunkEmbeddings")
                         ELSE Ended(marked.db, marked.err, "UpdateBookmarkStatus")
          IN  /\ WithinBounds(out.db)
              /\ db' = out.db
              /\ last' = [op |-> "ProcessBookmarkContent", arg |-> processor.id,
                          err |-> out.err, stage |-> out.stage]
    /\ processor' = NoProcessor
    /\ UNCHANGED <<foreignKeys, conn, jobState, ret, snap, history, chunker, search>>

\* the background processor working on imported bookmarks while the
\* orchestrator and the rescrape handler write to the same store
RaceSpec ==
    /\ StoreInit
    /\ [][\/ /\ \/ CallImportBookmarks(FALSE, MaxOwners) /\ UNCHANGED jobState
                \/ CallScrapeItem
                \/ CallRescrapeBookmark
             /\ UNCHANGED <<ret, snap, history, chunker, search, processor>>
          \/ ProcessorStoreContent
          \/ ProcessorGetContent
          \/ ProcessorStoreChunks]_vars

\* the orchestrator under a scheduler that runs every goroutine that can
\* take a step, with scraper calls that return and callers that resume a
\* paused job
ResumedSpec ==
    FairSpec /\ WF_vars(Resume(FALSE) /\ UNCHANGED <<ret, snap, history, storeVars, chunker, search, processor>>)

C23_FlooredSortedCapped ==
    (search.done /\ search.in.hasProcessor /\ search.in.fail = {}) =>
        LET in  == search.in
            out == search.hybrid.results
            sem == semanticSearch(in, CandidateLimit)
            lex == normalizeBM25Scores(keywordSearch(in, CandidateLimit))
        IN  /\ \A id \in 1..Len(in.bookmarks) :
                  (/\ \A k \in 1..Len(in.chunks) :
                          in.chunks[k].ID = id => 1000 - in.chunks[k].Distance < SemanticFloor
                   /\ \A k \in 1..Len(in.matches) : in.matches[k].ID # id)
                  => \A n \in 1..Len(out) : out[n].ID # id
            /\ \A n \in 1..Len(out) :
                  \/ \E k \in 1..Len(sem) :
                        sem[k].ID = out[n].ID /\ sem[k].RelevanceScore >= SemanticFloor
                  \/ \E k \in 1..Len(lex) :
                        lex[k].ID = out[n].ID /\ lex[k].RelevanceScore >= KeywordFloor
            /\ \A n \in 1..(Len(out) - 1) : out[n].RelevanceScore >= out[n + 1].RelevanceScore
            /\ Len(out) <= TopResults
\* a search has answered with one bookmark and left out another, whose only
\* chunk is below the floor and which no index matched
C23_Witness ==
    /\ search.done /\ search.in.hasProcessor /\ search.in.fail = {}
    /\ search.in.matches = <<>>
    /\ Len(search.hybrid.results) = 1
    /\ \E k \in 1..Len(search.in.chunks) :
          /\ 1000 - search.in.chunks[k].Distance < SemanticFloor
          /\ \A l \in 1..Len(search.in.chunks) :
                search.in.chunks[l].ID = search.in.chunks[k].ID => l = k

\* C24: for every non-empty set of lexical candidates, whether the raw bm25
\* values are all positive or all negative (lower is better), after
\* normalizeBM25Scores every score lies in [0,1], the best-ranked candidate
\* has score 1, and the 0.15 floor does not discard the best lexical match:
\* its bookmark is in the result of HybridSearch.
C24_NormalizedToUnitInterval ==
    (search.done /\ search.in.hasProcessor /\ search.in.fail = {} /\ search.in.matches # <<>>) =>
        LET in   == search.in
            raw  == keywordSearch(in, CandidateLimit)
            lex  == normalizeBM25Scores(raw)
            Abs(x) == IF x < 0 THEN -x ELSE x
            best == CHOOSE k \in 1..Len(raw) :
                        \A l \in 1..Len(raw) : Abs(raw[l].RelevanceScore) <= Abs(raw[k].RelevanceScore)
        IN  /\ \A k \in 1..Len(lex) : lex[k].RelevanceScore \in 0..1000
            /\ lex[best].RelevanceScore = 1000
            /\ \E n \in 1..Len(search.hybrid.results) :
                  search.hybrid.results[n].ID = lex[best].ID

\* C25: the boosts of a candidate never stack: its weighted score is
\* multiplied by exactly one of 1.5 (a query word occurs in the title), else
\* 1.3 (in the description), else 1.2 (in the content), else 1, and by
\* exactly one of 3.0 (the whole query is a substring of the title), else
\* 2.0 (of the URL), else 2.0 (at least 50% of the query words equal a title
\* word), else 1.5 (at least 25% do), else 1; an empty query boosts nothing.
C25_BoostsByPrecedence ==
    (/\ search.done /\ search.in.hasProcessor /\ search.in.fail = {}
     /\ Len(search.in.bookmarks) = 1 /\ Len(search.in.chunks) = 1 /\ search.in.matches = <<>>) =>
        LET q     == ToLower(search.in.query)
            b     == search.in.bookmarks[1]
            words == Fields(q)
            Holds(text) == \E i \in 1..Len(words) : Contains(ToLower(text), words[i])
            equal == Cardinality({i \in 1..Len(words) :
                         \E j \in 1..Len(Fields(ToLower(b.Title))) :
                             words[i] = Fields(ToLower(b.Title))[j]})
            substring == IF q = <<>> THEN 10
                         ELSE IF Holds(b.Title) THEN 15
                         ELSE IF Holds(b.Description) THEN 13
                         ELSE IF Holds(b.CleanText) THEN 12 ELSE 10
            field     == IF q = <<>> THEN 10
                         ELSE IF Contains(ToLower(b.Title), q) THEN 30
                         ELSE IF Contains(ToLower(b.URL), q) THEN 20
                         ELSE IF equal > 0 /\ 100 * equal >= 50 * Len(words) THEN 20
                         ELSE IF equal > 0 /\ 100 * equal >= 25 * Len(words) THEN 15 ELSE 10
            weighted  == ((1000 - search.in.chunks[1].Distance) * 4) \div 10
        IN  /\ Len(search.hybrid.results) = 1
            /\ 100 * search.hybrid.results[1].RelevanceScore = weighted * substring * field
\* a bookmark titled "a" and described as "b" has been found with the query
\* "b a": 0.4 times 1.5 for the title, not 1.3 as well, times 2.0 for one
\* query word of two that is a title word
C25_Witness ==
    /\ search.done /\ search.in.hasProcessor /\ search.in.fail = {}
    /\ Len(search.in.bookmarks) = 1 /\ Len(search.in.chunks) = 1 /\ search.in.matches = <<>>
    /\ search.in.query = <<"b", " ", "a">>
    /\ search.in.bookmarks[1].Title = <<"a">>
    /\ search.in.bookmarks[1].Description = <<"b">>
    /\ search.in.bookmarks[1].URL = <<"u">>
    /\ search.hybrid.results[1].RelevanceScore = 1200

\* C26: HybridSearch is deterministic: for the same query over the same
\* store it returns the same bookmarks in the same order with the same
\* scores, whatever the order in which the result map is iterated, also
\* when final scores are equal and when ties fall on the cut at 20.
C26_Deterministic ==
    (search.done /\ search.in.hasProcessor /\ search.in.fail = {}) =>
        \A other \in 0..(Len(search.in.bookmarks) - 1) :
            HybridSearch(search.in, other) = search.hybrid

\* C27: a failure of the embedding provider for the query does not fail the
\* search: ContentProcessor.HybridSearch then returns what the lexical
\* search of the same query returns, and an error only if the lexical
\* search fails; the handler answers with the lexical results when no
\* content processor is configured or when hybrid search returns an error,
\* and with an error only when the lexical search fails as well.
C27_EmbeddingFailureFallsBack ==
    search.done =>
        LET in      == search.in
            rows    == SubSeq(in.matches, 1, IF Len(in.matches) < 20 THEN Len(in.matches) ELSE 20)
            lexical == [k \in 1..Len(rows) |->
                           [ID |-> rows[k].ID, RelevanceScore |-> rows[k].Relevance,
                            SearchType |-> "keyword"]]
        IN  /\ "embedding" \in in.fail =>
                  /\ search.hybrid.err <=> "keyword" \in in.fail
                  /\ ~search.hybrid.err => search.hybrid.results = lexical
            /\ ("bind" \notin in.fail /\ (~in.hasProcessor \/ search.hybrid.err)) =>
                  search.answer = IF "keyword" \in in.fail
                                  THEN [status |-> 500, results |-> <<>>]
                                  ELSE [status |-> 200, results |-> lexical]
            /\ ({"bind", "keyword"} \cap in.fail = {} /\ "embedding" \in in.fail) =>
                  search.answer = [status |-> 200, results |-> lexical]
\* a search whose query could not be embedded has been answered with the
\* rows of the lexical search
C27_Witness ==
    /\ search.done /\ search.in.hasProcessor /\ search.in.fail = {"embedding"}
    /\ search.answer.status = 200
    /\ search.answer.results # <<>>
    /\ search.answer.results = search.hybrid.results

\* C30: when several chunks of one bookmark are semantic candidates, the
\* bookmark appears once in the result of HybridSearch, and its semantic
\* contribution is that of its best chunk, the highest similarity among its
\* chunks at or above 0.3, not that of a chunk with a lower similarity.
C30_BestChunkCounts ==
    (search.done /\ search.in.hasProcessor /\ search.in.fail = {} /\ search.in.matches = <<>>) =>
        LET in  == search.in
            out == search.hybrid.results
            sem == semanticSearch(in, CandidateLimit)
            Of(id) == {k \in 1..Len(sem) : sem[k].ID = id /\ sem[k].RelevanceScore >= SemanticFloor}
        IN  /\ \A n, m \in 1..Len(out) : out[n].ID = out[m].ID => n = m
            /\ \A n \in 1..Len(out) :
                  \E best \in Of(out[n].ID) :
                      /\ \A k \in Of(out[n].ID) : sem[k].RelevanceScore <= sem[best].RelevanceScore
                      /\ out[n].RelevanceScore = Boosted(sem[best], 4, in).RelevanceScore

\* C28: when ProcessBookmarkContent returns success, the chunk set it stored
\* is attached to the current content row of its bookmark, under every
\* interleaving of its store calls with another writer of the same
\* bookmark; and a bookmark with status completed always has a content row
\* with at least one embedding chunk, also after a later re-scrape.
C28_CompletedHasChunks ==
    [][/\ (last'.op = "ProcessBookmarkContent" /\ ~last'.err)
             => \E c \in ContentOf(db', last'.arg) : ChunksOf(db', c.id) # EmptyBag
       /\ \A b \in db'.bookmarks :
             b.status = "completed" =>
                 \E c \in ContentOf(db', b.id) : ChunksOf(db', c.id) # EmptyBag]_vars

\* C29: a job that is not stopped always finishes: when every Pause is
\* followed by a Resume, every scraper call returns and the scheduler is
\* fair, a running job eventually reaches the status completed unless a
\* Stop is called (which sets the status stopped), also when it is paused
\* and resumed while the worker is on its last item and when an earlier job
\* left a pause signal behind.
C29_EventuallyCompleted ==
    (status = StatusRunning) ~> (status \in {StatusCompleted, StatusStopped})

====
